---- MODULE Spec2Model ----
(***************************************************************************)
(* adder-dyn: src/main.rs.  A compiler for the language                    *)
(*     EXPR := INTEGER | (add1 EXPR) | (sub1 EXPR)                          *)
(* that lowers an expression to mov/add/sub instructions on RAX, renders   *)
(* them as assembly text, encodes them as x86-64 machine code into a       *)
(* dynasmrt assembler, runs the code, then rewrites the buffer in place    *)
(* to "mov rax, 3*value ; ret" and runs it again.                          *)
(*                                                                         *)
(* Numbers.  TLC integers are 32-bit, so an i32 is a TLC integer whose     *)
(* arithmetic is done without leaving the range, an i64 (the integer of a  *)
(* Sexp atom) is a pair of base-65536 limbs, and the 64-bit register RAX   *)
(* is a little-endian sequence of 8 bytes.                                 *)
(***************************************************************************)
EXTENDS Integers, Sequences, FiniteSets, TLC

\* ------------------------------------------------------------------ bounds

\* Greatest number of add1/sub1 wrappers, and of list nestings, of an input.
MaxDepth == 2

\* ------------------------------------------------------------ i32 and i64

\* i32::MAX and i32::MIN (the payload type of Imm and Num).
MaxI32 == 2147483647
MinI32 == -MaxI32 - 1

\* An i64 as hi * 65536 + lo, 0 <= lo < 65536.
I64(n) == [hi |-> n \div 65536, lo |-> n % 65536]

\* i32::try_from(i64): Ok(n) when MinI32 <= n <= MaxI32, Err(TryFromIntError).
TryFromI64(w) ==
    IF w.hi >= -32768 /\ w.hi <= 32767
    THEN [ok |-> TRUE, val |-> w.hi * 65536 + w.lo]
    ELSE [ok |-> FALSE]

\* a + b leaves the i32 range.
AddOverflows(a, b) ==
    \/ a >= 0 /\ b > 0 /\ b > MaxI32 - a
    \/ a < 0 /\ b < 0 /\ b < MinI32 - a

\* i32 wrapping_add: a + b modulo 2^32, as a signed value.
WrappingAdd(a, b) ==
    IF a >= 0 /\ b > 0 /\ b > MaxI32 - a
    THEN (a - MaxI32 - 1) + (b - MaxI32 - 1)
    ELSE IF a < 0 /\ b < 0 /\ b < MinI32 - a
         THEN (a + MaxI32 + 1) + (b + MaxI32 + 1)
         ELSE a + b

\* The outcome of an i32 operation: a value, or the panic of a build with
\* overflow checks ("attempt to ... with overflow").
Value(n) == [panic |-> FALSE, val |-> n]
Panic(m) == [panic |-> TRUE, msg |-> m, args |-> << >>]

\* a + b as the build compiles it: overflow-checks on (the dev profile)
\* panics on overflow, overflow-checks off (the release profile) wraps.
AddI32(a, b, checks) ==
    IF checks /\ AddOverflows(a, b)
    THEN Panic("attempt to add with overflow")
    ELSE Value(WrappingAdd(a, b))

\* a - 1 as the build compiles it.
SubOneI32(a, checks) ==
    IF checks /\ a = MinI32
    THEN Panic("attempt to subtract with overflow")
    ELSE Value(WrappingAdd(a, -1))

\* a * k for k >= 0 by repeated addition: a panic as soon as a partial sum
\* leaves the range with checks on (a partial sum k'*a, k' <= k, leaves the
\* range exactly when k*a does), the wrapped product otherwise.
RECURSIVE MulI32(_, _, _)
MulI32(a, k, checks) ==
    IF k = 0 THEN Value(0)
    ELSE LET p == MulI32(a, k - 1, checks) IN
         IF p.panic THEN p
         ELSE IF checks /\ AddOverflows(p.val, a)
              THEN Panic("attempt to multiply with overflow")
              ELSE Value(WrappingAdd(p.val, a))

\* ------------------------------------------------------------------ bytes

\* The 4 little-endian bytes of an i32 (two's complement).
I32ToBytes(n) ==
    << n % 256, (n \div 256) % 256, (n \div 65536) % 256, (n \div 16777216) % 256 >>

\* The i32 of 4 little-endian bytes.
BytesToI32(b) ==
    b[1] + 256 * b[2] + 65536 * b[3]
      + 16777216 * (IF b[4] >= 128 THEN b[4] - 256 ELSE b[4])

\* imm32 sign-extended to 64 bits, as the REX.W forms of mov/add/sub do.
SignExtend64(b) ==
    b \o (IF b[4] >= 128 THEN <<255, 255, 255, 255>> ELSE <<0, 0, 0, 0>>)

\* a + b + c on little-endian byte sequences of one length, modulo 256^Len.
RECURSIVE AddCarry(_, _, _)
AddCarry(a, b, c) ==
    IF a = << >> THEN << >>
    ELSE LET s == a[1] + b[1] + c IN
         <<s % 256>> \o AddCarry(Tail(a), Tail(b), s \div 256)

Add64(a, b) == AddCarry(a, b, 0)
Sub64(a, b) == AddCarry(a, [i \in DOMAIN b |-> 255 - b[i]], 1)

\* ------------------------------------------------------- the data model

\* enum Reg { RAX }
RAX == "RAX"

\* enum Val { Reg(Reg), Imm(i32) }
Reg(r) == [kind |-> "Reg", reg |-> r]
Imm(n) == [kind |-> "Imm", n |-> n]

\* enum Instr { IMov(Val, Val), IAdd(Val, Val), ISub(Val, Val) }
IMov(v1, v2) == [op |-> "IMov", dst |-> v1, src |-> v2]
IAdd(v1, v2) == [op |-> "IAdd", dst |-> v1, src |-> v2]
ISub(v1, v2) == [op |-> "ISub", dst |-> v1, src |-> v2]

\* enum Expr { Num(i32), Add1(Box<Expr>), Sub1(Box<Expr>) }
Num(n) == [tag |-> "Num", n |-> n]
Add1(e) == [tag |-> "Add1", e |-> e]
Sub1(e) == [tag |-> "Sub1", e |-> e]

\* sexp::Sexp: Atom(I(i64)), Atom(S(String)), Atom(F(f64)), List(Vec<Sexp>).
AtomI(w) == [kind |-> "I", n |-> w]
AtomS(str) == [kind |-> "S", s |-> str]
AtomF == [kind |-> "F"]
List(v) == [kind |-> "List", items |-> v]

\* --------------------------------------------------------------- parse_expr

\* parse_expr: the Expr of a Sexp, or the panic that ends the program.  An
\* integer atom goes through i32::try_from(..).unwrap(); every shape that
\* matches no arm panics with the message "parse error", which has no
\* format arguments.
RECURSIVE parse_expr(_)
parse_expr(s) ==
    IF s.kind = "I"
    THEN LET r == TryFromI64(s.n) IN
         IF r.ok THEN Value(Num(r.val))
         ELSE Panic("called Result::unwrap() on an Err value: TryFromIntError(())")
    ELSE IF s.kind = "List"
    THEN IF Len(s.items) = 2 /\ s.items[1].kind = "S" /\ s.items[1].s = "add1"
         THEN LET r == parse_expr(s.items[2]) IN
              IF r.panic THEN r ELSE Value(Add1(r.val))
         ELSE IF Len(s.items) = 2 /\ s.items[1].kind = "S" /\ s.items[1].s = "sub1"
         THEN LET r == parse_expr(s.items[2]) IN
              IF r.panic THEN r ELSE Value(Sub1(r.val))
         ELSE Panic("parse error")
    ELSE Panic("parse error")

\* ----------------------------------------------------- compile_to_instrs

\* Mutants of compile_expr_instrs: the Sub1 arm pushes nothing of its own;
\* the arms push before they descend (pre-order); the Add1 arm builds its
\* operands the wrong way round.
RECURSIVE compile_expr_instrs_skip(_, _)
compile_expr_instrs_skip(e, cmds) ==
    IF e.tag = "Num" THEN Append(cmds, IMov(Reg(RAX), Imm(e.n)))
    ELSE IF e.tag = "Add1"
    THEN Append(compile_expr_instrs_skip(e.e, cmds), IAdd(Reg(RAX), Imm(1)))
    ELSE compile_expr_instrs_skip(e.e, cmds)

RECURSIVE compile_expr_instrs_preorder(_, _)
compile_expr_instrs_preorder(e, cmds) ==
    IF e.tag = "Num" THEN Append(cmds, IMov(Reg(RAX), Imm(e.n)))
    ELSE IF e.tag = "Add1"
    THEN compile_expr_instrs_preorder(e.e, Append(cmds, IAdd(Reg(RAX), Imm(1))))
    ELSE compile_expr_instrs_preorder(e.e, Append(cmds, ISub(Reg(RAX), Imm(1))))

RECURSIVE compile_expr_instrs_swapped(_, _)
compile_expr_instrs_swapped(e, cmds) ==
    IF e.tag = "Num" THEN Append(cmds, IMov(Reg(RAX), Imm(e.n)))
    ELSE IF e.tag = "Add1"
    THEN Append(compile_expr_instrs_swapped(e.e, cmds), IAdd(Imm(1), Reg(RAX)))
    ELSE Append(compile_expr_instrs_swapped(e.e, cmds), ISub(Reg(RAX), Imm(1)))

\* compile_expr_instrs: cmds with the instructions of e pushed, the
\* subexpression's first.
RECURSIVE compile_expr_instrs(_, _)
compile_expr_instrs(e, cmds) ==
    IF e.tag = "Num" THEN Append(cmds, IMov(Reg(RAX), Imm(e.n)))
    ELSE IF e.tag = "Add1"
    THEN Append(compile_expr_instrs(e.e, cmds), IAdd(Reg(RAX), Imm(1)))
    ELSE Append(compile_expr_instrs(e.e, cmds), ISub(Reg(RAX), Imm(1)))

compile_to_instrs(e) == compile_expr_instrs(e, << >>)

\* ------------------------------------------------------------------ interp

\* interp: i32 arithmetic, so an overflow panics or wraps as the build has it.
RECURSIVE interp(_, _)
interp(e, checks) ==
    IF e.tag = "Num" THEN Value(e.n)
    ELSE LET r == interp(e.e, checks) IN
         IF r.panic THEN r
         ELSE IF e.tag = "Add1" THEN AddI32(1, r.val, checks)
              ELSE SubOneI32(r.val, checks)

\* ----------------------------------------------------------- assembly text

DigitChar(d) == <<"0", "1", "2", "3", "4", "5", "6", "7", "8", "9">>[d + 1]

\* The decimal digits of n >= 0.
RECURSIVE NatToStr(_)
NatToStr(n) ==
    IF n < 10 THEN DigitChar(n) ELSE NatToStr(n \div 10) \o DigitChar(n % 10)

\* The decimal digits of -n for n <= 0 (MinI32 has no negation in i32).
RECURSIVE NegToStr(_)
NegToStr(n) ==
    LET d == (10 - (n % 10)) % 10
        q == (n + d) \div 10
    IN  IF q = 0 THEN DigitChar(d) ELSE NegToStr(q) \o DigitChar(d)

\* Display for i32, the "{n}" of format!.
I32ToStr(n) == IF n < 0 THEN "-" \o NegToStr(n) ELSE NatToStr(n)

val_to_str(v) ==
    IF v.kind = "Reg" THEN "RAX" ELSE "DWORD " \o I32ToStr(v.n)

instr_to_str(i) ==
    IF i.op = "IMov" THEN "mov " \o val_to_str(i.dst) \o ", " \o val_to_str(i.src)
    ELSE IF i.op = "ISub"
    THEN "sub " \o val_to_str(i.dst) \o ", " \o val_to_str(i.src)
    ELSE "add " \o val_to_str(i.dst) \o ", " \o val_to_str(i.src)

\* A text is a sequence of pieces: a piece is the line break "\n" or a
\* string without line breaks; the text is their concatenation.
NL == "\n"

\* [String].join(sep)
RECURSIVE Join(_, _)
Join(strs, sep) ==
    IF strs = << >> THEN << >>
    ELSE IF Len(strs) = 1 THEN <<strs[1]>>
    ELSE <<strs[1], sep>> \o Join(Tail(strs), sep)

instrs_to_str(cmds) == Join([k \in DOMAIN cmds |-> instr_to_str(cmds[k])], NL)

\* The format! of main: the template with {} replaced by result.
AsmProgram(result) ==
    <<NL, "section .text", NL, "global our_code_starts_here", NL,
      "our_code_starts_here:", NL, "  ">> \o result \o <<NL, "  ret", NL>>

\* The lines of a text: the concatenated pieces between line breaks.
RECURSIVE LinesFrom(_, _)
LinesFrom(text, cur) ==
    IF text = << >> THEN <<cur>>
    ELSE IF text[1] = NL THEN <<cur>> \o LinesFrom(Tail(text), "")
    ELSE LinesFrom(Tail(text), cur \o text[1])

Lines(text) == LinesFrom(text, "")

\* ------------------------------------------------------------ machine code

reg_to_index(r) == 0

\* The bytes dynasm emits for "op Rq(idx), imm32": REX.W (with REX.B from bit
\* 3 of the register), the opcode, ModRM with mod = 11 and the /digit of the
\* operation, and the immediate, little-endian.
EncodeRqImm32(opcode, digit, idx, n) ==
    <<72 + ((idx \div 8) % 2), opcode, 192 + 8 * digit + (idx % 8)>> \o I32ToBytes(n)

\* mov r/m64, imm32 is C7 /0; add r/m64, imm32 is 81 /0; sub is 81 /5.
MovBytes(idx, n) == EncodeRqImm32(199, 0, idx, n)
AddBytes(idx, n) == EncodeRqImm32(129, 0, idx, n)
SubBytes(idx, n) == EncodeRqImm32(129, 5, idx, n)
RetBytes == <<195>>

\* dynasmrt::x64::Assembler: the executable buffer (committed bytes) and the
\* bytes assembled since the last commit.
NewAssemblerValue == [execbuf |-> << >>, pending |-> << >>]

\* Assembler::offset
Offset(o) == Len(o.execbuf) + Len(o.pending)

\* dynasm!(ops ; ...): the bytes are added to the uncommitted part.
Emit(o, bytes) == [o EXCEPT !.pending = @ \o bytes]

\* instr_to_asm: the assembler after the instruction, or the panic of the
\* catch-all arm.
instr_to_asm(i, o) ==
    IF i.dst.kind = "Reg" /\ i.src.kind = "Imm"
    THEN IF i.op = "IMov" THEN Value(Emit(o, MovBytes(reg_to_index(i.dst.reg), i.src.n)))
         ELSE IF i.op = "IAdd"
         THEN Value(Emit(o, AddBytes(reg_to_index(i.dst.reg), i.src.n)))
         ELSE Value(Emit(o, SubBytes(reg_to_index(i.dst.reg), i.src.n)))
    ELSE Panic("Unknown instruction format")

\* instrs_to_asm: for_each, which a panic leaves.
RECURSIVE instrs_to_asm(_, _)
instrs_to_asm(cmds, o) ==
    IF cmds = << >> THEN Value(o)
    ELSE LET r == instr_to_asm(cmds[1], o) IN
         IF r.panic THEN r ELSE instrs_to_asm(Tail(cmds), r.val)

\* Mutant of Commit: the assembled bytes stay uncommitted.
CommitNothing(o) == o

\* Assembler::commit: the assembled bytes become part of the executable buffer.
Commit(o) == [execbuf |-> o.execbuf \o o.pending, pending |-> << >>]

\* Modifier writes: bytes over the buffer from offset off on, within the buffer.
Overwrite(buf, off, bytes) ==
    [k \in 1..Len(buf) |->
        IF k > off /\ k <= off + Len(bytes) THEN bytes[k - off] ELSE buf[k]]

\* Mutant of AlterCode: the closure writes no ret after the mov.
AlterCodeNoRet(k) == MovBytes(0, k)

\* The code of the closure given to alter: mov rax, answer ; ret.
AlterCode(k) == MovBytes(0, k) \o RetBytes

\* Assembler::alter: commits, then lets the closure write through a Modifier
\* that starts at offset 0 of the executable buffer.
Alter(o, bytes) ==
    LET c == Commit(o) IN [c EXCEPT !.execbuf = Overwrite(@, 0, bytes)]

\* reader.lock().ptr(start): a pointer to offset start of the executable buffer.
Ptr(o, off) == [ptr |-> off]

\* ------------------------------------------------------------------- the CPU

Fault == [fault |-> TRUE]
Returned(n) == [fault |-> FALSE, val |-> n]

\* What RAX may hold when the jitted function is entered.
InitialRax ==
    { <<0, 0, 0, 0, 0, 0, 0, 0>>, <<239, 190, 173, 222, 255, 255, 255, 127>> }

\* Execution of the bytes of mem from offset ip on, with rax the content of
\* RAX: ret returns EAX as the i32 result of extern "C" fn() -> i32; bytes
\* that are none of the four instructions, or the end of the buffer, fault.
RECURSIVE Run(_, _, _)
Run(mem, ip, rax) ==
    IF ip + 1 > Len(mem) THEN Fault
    ELSE IF mem[ip + 1] = 195 THEN Returned(BytesToI32(SubSeq(rax, 1, 4)))
    ELSE IF ip + 7 > Len(mem) THEN Fault
    ELSE LET head == SubSeq(mem, ip + 1, ip + 3)
             imm == SignExtend64(SubSeq(mem, ip + 4, ip + 7))
         IN  IF head = <<72, 199, 192>> THEN Run(mem, ip + 7, imm)
             ELSE IF head = <<72, 129, 192>> THEN Run(mem, ip + 7, Add64(rax, imm))
             ELSE IF head = <<72, 129, 232>> THEN Run(mem, ip + 7, Sub64(rax, imm))
             ELSE Fault

\* jitted_fn(): a call through the pointer.
Call(o, f, rax) == Run(o.execbuf, f.ptr, rax)

\* The instructions the bytes of mem hold from offset ip up to the first ret.
RECURSIVE Disassemble(_, _)
Disassemble(mem, ip) ==
    IF ip + 1 > Len(mem) \/ mem[ip + 1] = 195 \/ ip + 7 > Len(mem) THEN << >>
    ELSE LET head == SubSeq(mem, ip + 1, ip + 3)
             n == BytesToI32(SubSeq(mem, ip + 4, ip + 7))
         IN  IF head = <<72, 199, 192>>
             THEN <<IMov(Reg(RAX), Imm(n))>> \o Disassemble(mem, ip + 7)
             ELSE IF head = <<72, 129, 192>>
             THEN <<IAdd(Reg(RAX), Imm(n))>> \o Disassemble(mem, ip + 7)
             ELSE IF head = <<72, 129, 232>>
             THEN <<ISub(Reg(RAX), Imm(n))>> \o Disassemble(mem, ip + 7)
             ELSE << >>

\* ------------------------------------------------------------------ inputs

\* Integer atoms within i32: the ends of the range, their neighbours, the
\* values around MaxI32 / 3 and MinI32 / 3, and small values.
IntLiterals ==
    { MinI32, MinI32 + 1, -715827883, -715827882, -1, 0, 1, 5, 10,
      715827882, 715827883, MaxI32 - 1, MaxI32 }

\* Integer atoms outside i32: 9999999999, 2147483648, -2147483649.
OutOfRange ==
    { [hi |-> 152587, lo |-> 58367], [hi |-> 32768, lo |-> 0],
      [hi |-> -32769, lo |-> 65535] }

Atoms ==
    {AtomI(I64(n)) : n \in IntLiterals} \cup {AtomI(w) : w \in OutOfRange}
      \cup {AtomS("add1"), AtomS("x"), AtomF}

Heads == {AtomS("add1"), AtomS("sub1"), AtomS("mul2"), AtomI(I64(1))}

\* The trees of nesting depth at most d that sexp::parse can return: atoms,
\* two-element lists with any head, and lists of 0, 1 and 3 elements.
RECURSIVE Trees(_)
Trees(d) ==
    IF d = 0 THEN Atoms
    ELSE LET T == Trees(d - 1) IN
         T \cup {List(<<h, e>>) : h \in Heads, e \in T}
           \cup { List(<< >>), List(<<AtomS("add1")>>),
                  List(<<AtomS("add1"), AtomI(I64(1)), AtomI(I64(2))>>) }

Inputs == Trees(MaxDepth)

\* ------------------------------------------------------------------- main

VARIABLES
    overflow_checks,   \* the build: TRUE with overflow checks (dev), FALSE without
    input,             \* parse(&in_contents).unwrap(): the Sexp of the input file
    pc,                \* the statement of main that runs next
    expr,              \* the parsed expression
    instrs,            \* compile_to_instrs(&expr)
    asm_program,       \* the assembly text written to the output file
    ops,               \* the dynasmrt assembler
    start,             \* ops.offset() before anything is assembled
    jitted_fn,         \* the first function pointer
    jitted_fn_again,   \* the function pointer taken after the alter
    result1,           \* what jitted_fn() returned
    answer,            \* interp(&expr) * 3
    result2,           \* what jitted_fn_again() returned
    panicked,          \* the panic that ended the program
    trace              \* the operations done on the code buffer, in order

vars ==
    << overflow_checks, input, pc, expr, instrs, asm_program, ops, start,
       jitted_fn, jitted_fn_again, result1, answer, result2, panicked, trace >>

None == [none |-> TRUE]

\* An operation on the code buffer: its name, the pointer variable it takes
\* or calls through (if any), and the number of uncommitted bytes it found.
Event(name, handle, o) ==
    [op |-> name, handle |-> handle, uncommitted |-> Len(o.pending)]

Init ==
    /\ overflow_checks \in BOOLEAN
    /\ input \in Inputs
    /\ pc = "parse_expr"
    /\ expr = None
    /\ instrs = << >>
    /\ asm_program = << >>
    /\ ops = None
    /\ start = 0
    /\ jitted_fn = None
    /\ jitted_fn_again = None
    /\ result1 = None
    /\ answer = None
    /\ result2 = None
    /\ panicked = None
    /\ trace = << >>

\* let expr = parse_expr(&parse(&in_contents).unwrap());
ParseExpr ==
    /\ pc = "parse_expr"
    /\ LET r == parse_expr(input) IN
       IF r.panic
       THEN /\ pc' = "panicked"
            /\ panicked' = r
            /\ expr' = expr
       ELSE /\ pc' = "compile_to_instrs"
            /\ expr' = r.val
            /\ panicked' = panicked
    /\ UNCHANGED << overflow_checks, input, instrs, asm_program, ops, start,
                    jitted_fn, jitted_fn_again, result1, answer, result2, trace >>

\* let instrs = compile_to_instrs(&expr);
CompileToInstrs ==
    /\ pc = "compile_to_instrs"
    /\ instrs' = compile_to_instrs(expr)
    /\ pc' = "emit_text"
    /\ UNCHANGED << overflow_checks, input, expr, asm_program, ops, start,
                    jitted_fn, jitted_fn_again, result1, answer, result2,
                    panicked, trace >>

\* let result = instrs_to_str(&instrs); let asm_program = format!(...); and
\* the write of the text to the output file.
EmitText ==
    /\ pc = "emit_text"
    /\ asm_program' = AsmProgram(instrs_to_str(instrs))
    /\ pc' = "new_assembler"
    /\ UNCHANGED << overflow_checks, input, expr, instrs, ops, start, jitted_fn,
                    jitted_fn_again, result1, answer, result2, panicked, trace >>

\* let mut ops = Assembler::new().unwrap(); let start = ops.offset();
NewAssembler ==
    /\ pc = "new_assembler"
    /\ ops' = NewAssemblerValue
    /\ start' = Offset(NewAssemblerValue)
    /\ pc' = "instrs_to_asm"
    /\ UNCHANGED << overflow_checks, input, expr, instrs, asm_program, jitted_fn,
                    jitted_fn_again, result1, answer, result2, panicked, trace >>

\* instrs_to_asm(&instrs, &mut ops);
InstrsToAsm ==
    /\ pc = "instrs_to_asm"
    /\ LET r == instrs_to_asm(instrs, ops) IN
       IF r.panic
       THEN /\ pc' = "panicked"
            /\ panicked' = r
            /\ UNCHANGED << ops, trace >>
       ELSE /\ pc' = "emit_ret"
            /\ ops' = r.val
            /\ trace' = Append(trace, Event("encode", "", ops))
            /\ panicked' = panicked
    /\ UNCHANGED << overflow_checks, input, expr, instrs, asm_program, start,
                    jitted_fn, jitted_fn_again, result1, answer, result2 >>

\* dynasm!(ops ; .arch x64 ; ret);
EmitRet ==
    /\ pc = "emit_ret"
    /\ ops' = Emit(ops, RetBytes)
    /\ trace' = Append(trace, Event("encode", "", ops))
    /\ pc' = "commit"
    /\ UNCHANGED << overflow_checks, input, expr, instrs, asm_program, start,
                    jitted_fn, jitted_fn_again, result1, answer, result2, panicked >>

\* ops.commit();
CommitOps ==
    /\ pc = "commit"
    /\ ops' = Commit(ops)
    /\ trace' = Append(trace, Event("commit", "", ops))
    /\ pc' = "acquire"
    /\ UNCHANGED << overflow_checks, input, expr, instrs, asm_program, start,
                    jitted_fn, jitted_fn_again, result1, answer, result2, panicked >>

\* let jitted_fn = { ... mem::transmute(buf.ptr(start)) };
Acquire ==
    /\ pc = "acquire"
    /\ jitted_fn' = Ptr(ops, start)
    /\ trace' = Append(trace, Event("acquire", "jitted_fn", ops))
    /\ pc' = "execute"
    /\ UNCHANGED << overflow_checks, input, expr, instrs, asm_program, ops, start,
                    jitted_fn_again, result1, answer, result2, panicked >>

\* println!("Result from long-form code:\n{}", jitted_fn());
Execute ==
    /\ pc = "execute"
    /\ \E rax \in InitialRax : result1' = Call(ops, jitted_fn, rax)
    /\ trace' = Append(trace, Event("execute", "jitted_fn", ops))
    /\ pc' = "interp"
    /\ UNCHANGED << overflow_checks, input, expr, instrs, asm_program, ops, start,
                    jitted_fn, jitted_fn_again, answer, result2, panicked >>

\* let answer = interp(&expr) * 3;
Answer(e, checks) ==
    LET r == interp(e, checks) IN
    IF r.panic THEN r ELSE MulI32(r.val, 3, checks)

ComputeAnswer ==
    /\ pc = "interp"
    /\ LET r == Answer(expr, overflow_checks) IN
       IF r.panic
       THEN /\ pc' = "panicked"
            /\ panicked' = r
            /\ answer' = answer
       ELSE /\ pc' = "alter"
            /\ answer' = r
            /\ panicked' = panicked
    /\ UNCHANGED << overflow_checks, input, expr, instrs, asm_program, ops, start,
                    jitted_fn, jitted_fn_again, result1, result2, trace >>

\* ops.alter(|modifier| { dynasm!(modifier ; mov rax, answer ; ret) }).unwrap();
AlterOps ==
    /\ pc = "alter"
    /\ ops' = Alter(ops, AlterCode(answer.val))
    /\ trace' = Append(trace, Event("alter", "", ops))
    /\ pc' = "recommit"
    /\ UNCHANGED << overflow_checks, input, expr, instrs, asm_program, start,
                    jitted_fn, jitted_fn_again, result1, answer, result2, panicked >>

\* ops.commit(); // is this necessary? probably
Recommit ==
    /\ pc = "recommit"
    /\ ops' = Commit(ops)
    /\ trace' = Append(trace, Event("commit", "", ops))
    /\ pc' = "reacquire"
    /\ UNCHANGED << overflow_checks, input, expr, instrs, asm_program, start,
                    jitted_fn, jitted_fn_again, result1, answer, result2, panicked >>

\* let jitted_fn_again = { ... mem::transmute(buf.ptr(start)) };
Reacquire ==
    /\ pc = "reacquire"
    /\ jitted_fn_again' = Ptr(ops, start)
    /\ trace' = Append(trace, Event("acquire", "jitted_fn_again", ops))
    /\ pc' = "execute_again"
    /\ UNCHANGED << overflow_checks, input, expr, instrs, asm_program, ops, start,
                    jitted_fn, result1, answer, result2, panicked >>

\* Mutant of ExecuteAgain: the second call goes through the first pointer.
ExecuteAgainStale ==
    /\ pc = "execute_again"
    /\ \E rax \in InitialRax : result2' = Call(ops, jitted_fn, rax)
    /\ trace' = Append(trace, Event("execute", "jitted_fn", ops))
    /\ pc' = "done"
    /\ UNCHANGED << overflow_checks, input, expr, instrs, asm_program, ops, start,
                    jitted_fn, jitted_fn_again, result1, answer, panicked >>

\* println!("Rewritten to hardcode 3x the value directly:\n{}", jitted_fn_again());
\* The println! after it formats the two pointers and calls neither.
ExecuteAgain ==
    /\ pc = "execute_again"
    /\ \E rax \in InitialRax : result2' = Call(ops, jitted_fn_again, rax)
    /\ trace' = Append(trace, Event("execute", "jitted_fn_again", ops))
    /\ pc' = "done"
    /\ UNCHANGED << overflow_checks, input, expr, instrs, asm_program, ops, start,
                    jitted_fn, jitted_fn_again, result1, answer, panicked >>

Next ==
    \/ ParseExpr
    \/ CompileToInstrs
    \/ EmitText
    \/ NewAssembler
    \/ InstrsToAsm
    \/ EmitRet
    \/ CommitOps
    \/ Acquire
    \/ Execute
    \/ ComputeAnswer
    \/ AlterOps
    \/ Recommit
    \/ Reacquire
    \/ ExecuteAgain

Spec == Init /\ [][Next]_vars

\* ------------------------------------------------- what the claims speak of

\* The grammar EXPR := INTEGER | (IDENT EXPR), IDENT in {add1, sub1}, INTEGER
\* within i32.
RECURSIVE InGrammar(_)
InGrammar(s) ==
    \/ s.kind = "I" /\ s.n.hi >= -32768 /\ s.n.hi <= 32767
    \/ /\ s.kind = "List"
       /\ Len(s.items) = 2
       /\ s.items[1] \in {AtomS("add1"), AtomS("sub1")}
       /\ InGrammar(s.items[2])

\* The expression a tree of the grammar stands for.
RECURSIVE ExprOf(_)
ExprOf(s) ==
    IF s.kind = "I" THEN Num(s.n.hi * 65536 + s.n.lo)
    ELSE IF s.items[1] = AtomS("add1") THEN Add1(ExprOf(s.items[2]))
    ELSE Sub1(ExprOf(s.items[2]))

\* The node at which a tree leaves the grammar: the tree itself, or the
\* node at which the operand of an add1/sub1 list of two elements does.
RECURSIVE Offending(_)
Offending(s) ==
    IF s.kind = "List" /\ Len(s.items) = 2
         /\ s.items[1] \in {AtomS("add1"), AtomS("sub1")}
    THEN Offending(s.items[2])
    ELSE s

\* The literal of an expression and its wrappers, innermost first.
RECURSIVE LiteralOf(_)
LiteralOf(e) == IF e.tag = "Num" THEN e.n ELSE LiteralOf(e.e)

RECURSIVE WrappersOf(_)
WrappersOf(e) == IF e.tag = "Num" THEN << >> ELSE Append(WrappersOf(e.e), e.tag)

RECURSIVE NodeCount(_)
NodeCount(e) == IF e.tag = "Num" THEN 0 ELSE 1 + NodeCount(e.e)

Parsed == expr # None
Compiled == Parsed /\ pc \notin {"parse_expr", "compile_to_instrs"}
TextEmitted == Compiled /\ pc # "emit_text"
Committed == pc \in {"acquire", "execute", "interp"}
FirstRun == result1 # None
SecondRun == result2 # None

RangeErrorMsg == "called Result::unwrap() on an Err value: TryFromIntError(())"
SyntaxErrorMsg == "parse error"
ParseFailed == pc = "panicked" /\ expr = None

IsPrefix(a, b) == Len(a) <= Len(b) /\ a = SubSeq(b, 1, Len(a))

\* ------------------------------------------------------------------ claims

\* C1: for every well-formed expression, interp returns a value and the
\* jitted code returns that same value.
C1_JitEqualsInterp ==
    FirstRun =>
        LET r == interp(expr, overflow_checks) IN
        /\ ~r.panic
        /\ ~result1.fault
        /\ result1.val = r.val

\* C2: parse_expr accepts exactly the trees of the grammar and maps them to
\* Num/Add1/Sub1; an integer atom outside i32 fails with the range error;
\* every other tree fails with a syntax error that differs from the range
\* error and names the offending node.
C2_ParseContract ==
    pc # "parse_expr" =>
        /\ InGrammar(input) <=> Parsed
        /\ Parsed => expr = ExprOf(input)
        /\ ~InGrammar(input) =>
              /\ ParseFailed
              /\ IF Offending(input).kind = "I"
                 THEN panicked.msg = RangeErrorMsg
                 ELSE /\ panicked.msg = SyntaxErrorMsg
                      /\ panicked.msg # RangeErrorMsg
                      /\ \E k \in DOMAIN panicked.args :
                             panicked.args[k] = Offending(input)

\* C3: after the alter wrote mov rax, K ; ret at the entry offset, the
\* re-acquired entry point returns exactly K, whatever was encoded before.
C3_AlterReturnsK ==
    SecondRun => ~result2.fault /\ result2.val = answer.val

C3_Witness ==
    /\ pc = "done"
    /\ Len(instrs) >= 2
    /\ result2.val = answer.val
    /\ result2.val # result1.val

\* C4: the buffer operations occur in the order encode, commit, acquire,
\* execute, alter, commit, acquire, execute, and no entry point is acquired
\* or executed while the assembler holds uncommitted bytes.
ExpectedOrder ==
    << "encode", "encode", "commit", "acquire", "execute",
       "alter", "commit", "acquire", "execute" >>

C4_OperationOrder ==
    /\ IsPrefix([k \in DOMAIN trace |-> trace[k].op], ExpectedOrder)
    /\ \A k \in DOMAIN trace :
          trace[k].op \in {"acquire", "execute"} => trace[k].uncommitted = 0

C4_Witness ==
    /\ pc = "done"
    /\ [k \in DOMAIN trace |-> trace[k].op] = ExpectedOrder
    /\ trace[3].uncommitted > 0

\* C5: every call goes through a pointer acquired after the latest alter:
\* no alter lies between the acquisition of a pointer and a call through it.
C5_NoStaleCall ==
    \A i \in DOMAIN trace :
        trace[i].op = "execute" =>
            \E j \in 1..(i - 1) :
                /\ trace[j].op = "acquire"
                /\ trace[j].handle = trace[i].handle
                /\ \A k \in (j + 1)..(i - 1) : trace[k].op # "alter"

C5_Witness ==
    /\ pc = "done"
    /\ \E i, k \in DOMAIN trace :
          /\ k < i
          /\ trace[k].op = "alter"
          /\ trace[i].op = "execute"
          /\ trace[i].handle = "jitted_fn_again"

\* C6: the instruction sequence has 1 + (number of add1/sub1 nodes) elements.
C6_Length ==
    Compiled => Len(instrs) = 1 + NodeCount(expr)

C6_Witness ==
    Compiled /\ NodeCount(expr) = MaxDepth /\ Len(instrs) = 1 + MaxDepth

\* C7: the first instruction is Move(RAX, literal) and the only Move; the
\* (i+1)-th is Add(RAX, 1) or Subtract(RAX, 1) as the i-th wrapper from the
\* innermost outward is add1 or sub1; (sub1 (sub1 10)) gives
\* [Move(RAX, 10), Subtract(RAX, 1), Subtract(RAX, 1)].
C7_PostOrder ==
    Compiled =>
        /\ Len(instrs) = 1 + Len(WrappersOf(expr))
        /\ instrs[1] = IMov(Reg(RAX), Imm(LiteralOf(expr)))
        /\ \A i \in 1..Len(WrappersOf(expr)) :
              instrs[i + 1] = IF WrappersOf(expr)[i] = "Add1"
                              THEN IAdd(Reg(RAX), Imm(1))
                              ELSE ISub(Reg(RAX), Imm(1))
        /\ \A i \in 2..Len(instrs) : instrs[i].op # "IMov"
        /\ expr = Sub1(Sub1(Num(10))) =>
              instrs = << IMov(Reg(RAX), Imm(10)), ISub(Reg(RAX), Imm(1)),
                          ISub(Reg(RAX), Imm(1)) >>

C7_Witness ==
    /\ Compiled
    /\ expr = Sub1(Add1(Num(10)))
    /\ instrs = << IMov(Reg(RAX), Imm(10)), IAdd(Reg(RAX), Imm(1)),
                   ISub(Reg(RAX), Imm(1)) >>

\* C8: the text is the template with one line per instruction, in order,
\* each the mnemonic, RAX and DWORD <value>, and each indented as the
\* template indents its instruction line.
Mnemonic(i) ==
    IF i.op = "IMov" THEN "mov" ELSE IF i.op = "IAdd" THEN "add" ELSE "sub"

C8_TextTemplate ==
    TextEmitted =>
        /\ Lines(asm_program) =
              << "", "section .text", "global our_code_starts_here",
                 "our_code_starts_here:" >>
              \o [k \in DOMAIN instrs |->
                    "  " \o Mnemonic(instrs[k]) \o " RAX, DWORD "
                         \o I32ToStr(instrs[k].src.n)]
              \o << "  ret", "" >>
        /\ expr = Sub1(Sub1(Num(10))) =>
              SubSeq(Lines(asm_program), 5, 7) =
                  << "  mov RAX, DWORD 10", "  sub RAX, DWORD 1",
                     "  sub RAX, DWORD 1" >>

\* C9: the encoder never panics with "Unknown instruction format": every
\* instruction has a register destination and an immediate source, and
\* the committed bytes hold the sequence the text renders, in its order.
C9_EncoderAccepts ==
    /\ pc = "panicked" => panicked.msg # "Unknown instruction format"
    /\ Compiled =>
          \A k \in DOMAIN instrs :
              instrs[k].dst.kind = "Reg" /\ instrs[k].src.kind = "Imm"
    /\ Committed =>
          /\ Disassemble(ops.execbuf, start) = instrs
          /\ instrs_to_str(Disassemble(ops.execbuf, start))
                = SubSeq(asm_program, 9, Len(asm_program) - 3)

C9_Witness ==
    /\ Committed
    /\ Len(instrs) = 1 + MaxDepth
    /\ Disassemble(ops.execbuf, start) = instrs

\* C10: for every well-formed expression the second run takes place and
\* returns 3 times what the first run returned, in i32 arithmetic.
C10_TripleValue ==
    /\ Parsed => pc # "panicked"
    /\ SecondRun => result2.val = MulI32(result1.val, 3, FALSE).val

====
